---- MODULE Spec2Model ----
(***************************************************************************)
(* State-machine model of the DebugConfigs tree store (DebugConfigTree.ts) *)
(* and of the commands of extension.ts that call into it.                  *)
(*                                                                         *)
(* Text is a sequence of one-character strings, so that includes('.'),     *)
(* split('.') and toLowerCase() are computed and not assumed.  An optional *)
(* field (`x | undefined`) is a sequence of length at most one: <<>> is    *)
(* undefined and <<v>> holds v.                                            *)
(*                                                                         *)
(* Tree items are objects: `heap` maps an object identity to the fields of *)
(* the item, and rootItems and the children lists hold identities.  Only   *)
(* identity matters about an index, so after every call the heap keeps the *)
(* items reachable from rootItems, numbered in tree order (Collect).  An   *)
(* item that is no longer in the tree is the identity Stale: nothing reads *)
(* the fields of such an item again, it can only be handed to a call.      *)
(*                                                                         *)
(* `pending` is the queue of workspaceState.update calls in flight, `store`*)
(* the value under the tree state key, `exported` the file that            *)
(* exportTreeStateToFile wrote last, `document` the configuration file     *)
(* that debugConfigs.addToLaunchConfig edits, `out` what the last call did.*)
(***************************************************************************)
EXTENDS Integers, Sequences, FiniteSets, TLC

VARIABLES heap, rootItems, pending, store, exported, document, out

vars == <<heap, rootItems, pending, store, exported, document, out>>

\* ---------------------------------------------------------------- bounds
\* Items in the tree, in the specifications that build it with every command
\* and in the one that builds it for the resolver; writes in flight.
MaxNodes == 3
MaxResolveNodes == 4
MaxPending == 1
MaxPersistNodes == 2
MaxInFlight == 2
MaxNodeItems == 3
MaxInputs == 3

\* ---------------------------------------------------------------- options
None == <<>>
Some(x) == <<x>>
IsSome(o) == o # <<>>
Get(o) == o[1]

\* ------------------------------------------------------------------ text
Dot == "."

Lower(c) == IF c = "A" THEN "a" ELSE IF c = "B" THEN "b" ELSE c

ToLowerCase(s) == [i \in 1..Len(s) |-> Lower(s[i])]

Includes(s, c) == \E i \in 1..Len(s) : s[i] = c

IndexOfDot(s) ==
    IF Includes(s, Dot)
    THEN CHOOSE i \in 1..Len(s) : s[i] = Dot /\ \A j \in 1..(i - 1) : s[j] # Dot
    ELSE 0

RECURSIVE Split(_)
Split(s) ==
    IF IndexOfDot(s) = 0
    THEN <<s>>
    ELSE <<SubSeq(s, 1, IndexOfDot(s) - 1)>> \o Split(SubSeq(s, IndexOfDot(s) + 1, Len(s)))

RECURSIVE Join(_)
Join(parts) ==
    IF Len(parts) = 0 THEN <<>>
    ELSE IF Len(parts) = 1 THEN parts[1]
    ELSE parts[1] \o <<Dot>> \o Join(Tail(parts))

\* ---------------------------------------------------------------- labels
\* A label is what vscode.TreeItem.label can hold at run time: a string, a
\* TreeItemLabel object {label: string}, or neither (undefined, a number...).
StringLabel(text) == [kind |-> "string", text |-> text]
ObjectLabel(text) == [kind |-> "object", text |-> text]
NoLabel == [kind |-> "none", text |-> <<>>]

\* The text of a label as the resolver reads it.
ItemLabel(l) == IF l.kind = "none" THEN <<>> ELSE l.text

\* ----------------------------------------------------------------- items
UpdateDisplayProperties(n) ==
    [n EXCEPT !.contextValue = IF IsSome(n.value) THEN "leaf" ELSE "parent",
              !.description = n.value]

NewItem(label, collapsibleState, value, children) ==
    UpdateDisplayProperties(
        [label |-> label, collapsibleState |-> collapsibleState, value |-> value,
         children |-> children, contextValue |-> "parent", description |-> None])

\* resetValue without the call of updateDisplayProperties.
ResetValueKeepingDisplay(n) == [n EXCEPT !.value = None]

ResetValue(n) == UpdateDisplayProperties([n EXCEPT !.value = None])

\* addChild without the call of resetValue.
ItemAddChildKeepingValue(n, child) ==
    [n EXCEPT !.children =
                Some(Append(IF IsSome(n.children) THEN Get(n.children) ELSE <<>>, child)),
              !.collapsibleState = "Collapsed"]

\* addChild with unshift in place of push.
ItemAddChildFirst(n, child) ==
    [ResetValue([n EXCEPT !.children =
                    Some(<<child>> \o (IF IsSome(n.children) THEN Get(n.children) ELSE <<>>))])
        EXCEPT !.collapsibleState = "Collapsed"]

\* addChild without the assignment of collapsibleState.
ItemAddChildNotExpandable(n, child) ==
    ResetValue([n EXCEPT !.children =
                   Some(Append(IF IsSome(n.children) THEN Get(n.children) ELSE <<>>, child))])

ItemAddChild(n, child) ==
    [ResetValue([n EXCEPT !.children =
                    Some(Append(IF IsSome(n.children) THEN Get(n.children) ELSE <<>>, child))])
        EXCEPT !.collapsibleState = "Collapsed"]

IndexOf(items, x) ==
    IF \E i \in 1..Len(items) : items[i] = x
    THEN CHOOSE i \in 1..Len(items) : items[i] = x /\ \A j \in 1..(i - 1) : items[j] # x
    ELSE 0

Splice(items, index) ==
    SubSeq(items, 1, index - 1) \o SubSeq(items, index + 1, Len(items))

ItemCanRemoveChild(n, child) ==
    /\ IsSome(n.children)
    /\ Len(Get(n.children)) # 0
    /\ IndexOf(Get(n.children), child) # 0

ItemRemoveChild(n, child) ==
    LET rest == Splice(Get(n.children), IndexOf(Get(n.children), child))
    IN UpdateDisplayProperties(
        IF Len(rest) = 0
        THEN [n EXCEPT !.children = None, !.collapsibleState = "None"]
        ELSE [n EXCEPT !.children = Some(rest)])

\* ------------------------------------------------------------ identity
\* The items reachable from `items`, parents before children, in list order.
RECURSIVE PreOrder(_, _)
PreOrder(h, items) ==
    IF Len(items) = 0 THEN <<>>
    ELSE <<items[1]>>
         \o (IF IsSome(h[items[1]].children)
             THEN PreOrder(h, Get(h[items[1]].children)) ELSE <<>>)
         \o PreOrder(h, Tail(items))

\* The heap without the items that nothing refers to any more, the others
\* numbered by their place in PreOrder: [heap, items].
Collect(h, roots) ==
    LET order == PreOrder(h, roots)
        Renumber(items) == [k \in 1..Len(items) |-> IndexOf(order, items[k])]
    IN [heap |-> [i \in 1..Len(order) |->
                    [h[order[i]] EXCEPT !.children =
                        IF IsSome(h[order[i]].children)
                        THEN Some(Renumber(Get(h[order[i]].children)))
                        ELSE None]],
        items |-> Renumber(roots)]

\* An item that is not in the tree (never added to it, or removed from it).
Stale == 0

\* A run-time value handed to setValue: a string, a number, a boolean, a
\* bigint, or something that is none of these.
StringValue(str) == [type |-> "string", str |-> str]
NumberValue(num) == [type |-> "number", num |-> num]
BooleanValue(bool) == [type |-> "boolean", bool |-> bool]
BigintValue(num) == [type |-> "bigint", big |-> num]
ObjectValue == [type |-> "object"]

\* String(value) for the primitive types.
StringOf(v) ==
    IF v.type = "string" THEN v.str
    ELSE IF v.type = "number" THEN ToString(v.num)
    ELSE IF v.type = "boolean" THEN (IF v.bool THEN "true" ELSE "false")
    ELSE ToString(v.big)

IsPrimitive(v) == v.type \in {"string", "number", "boolean", "bigint"}

\* setValue that leaves the children as they are.
ItemSetValueKeepingChildren(n, v) ==
    UpdateDisplayProperties([n EXCEPT !.value = Some(StringOf(v))])

ItemSetValue(n, v) ==
    UpdateDisplayProperties(
        IF IsSome(n.children)
        THEN [n EXCEPT !.value = Some(StringOf(v)), !.children = None,
                       !.collapsibleState = "None"]
        ELSE [n EXCEPT !.value = Some(StringOf(v))])

\* ------------------------------------------------------------- provider
\* serializeTreeItems that writes no children.
SerializeTreeItemsShallow(h, items) ==
    [i \in 1..Len(items) |->
        [label |-> h[items[i]].label,
         value |-> h[items[i]].value,
         collapsibleState |-> h[items[i]].collapsibleState,
         children |-> None]]

\* serializeTreeItems that gives every record a children entry, an empty one
\* to an item without children.
RECURSIVE SerializeTreeItemsAlways(_, _)
SerializeTreeItemsAlways(h, items) ==
    [i \in 1..Len(items) |->
        [label |-> h[items[i]].label,
         value |-> h[items[i]].value,
         collapsibleState |-> h[items[i]].collapsibleState,
         children |-> Some(IF IsSome(h[items[i]].children)
                           THEN SerializeTreeItemsAlways(h, Get(h[items[i]].children))
                           ELSE <<>>)]]

RECURSIVE SerializeTreeItems(_, _)
SerializeTreeItems(h, items) ==
    [i \in 1..Len(items) |->
        [label |-> h[items[i]].label,
         value |-> h[items[i]].value,
         collapsibleState |-> h[items[i]].collapsibleState,
         children |-> IF IsSome(h[items[i]].children)
                      THEN Some(SerializeTreeItems(h, Get(h[items[i]].children)))
                      ELSE None]]

\* saveTreeState serializes before its first await: the write that is then in
\* flight carries the tree as it is at the call.
SaveTreeState(p, h, roots) == Append(p, SerializeTreeItems(h, roots))

\* The label check of deserializeTreeItems.
LabelRejected(l) == l.kind = "string" /\ Len(l.text) # 0 /\ Includes(l.text, Dot)

\* deserializeTreeItems(data) against heap h: [ok, heap, items].  A throw
\* leaves nothing behind that anything refers to, so it gives back h.
RECURSIVE DeserializeTreeItems(_, _)
DeserializeTreeItems(h, data) ==
    IF Len(data) = 0 THEN [ok |-> TRUE, heap |-> h, items |-> <<>>]
    ELSE
      LET itemData == data[1]
      IN IF LabelRejected(itemData.label)
         THEN [ok |-> FALSE, heap |-> h, items |-> <<>>]
         ELSE
           LET kids == IF IsSome(itemData.children)
                       THEN DeserializeTreeItems(h, Get(itemData.children))
                       ELSE [ok |-> TRUE, heap |-> h, items |-> <<>>]
           IN IF ~kids.ok
              THEN [ok |-> FALSE, heap |-> h, items |-> <<>>]
              ELSE
                LET item == NewItem(itemData.label, itemData.collapsibleState,
                                    itemData.value,
                                    IF IsSome(itemData.children)
                                    THEN Some(kids.items) ELSE None)
                    h1 == Append(kids.heap, item)
                    rest == DeserializeTreeItems(h1, Tail(data))
                IN IF ~rest.ok
                   THEN [ok |-> FALSE, heap |-> h, items |-> <<>>]
                   ELSE [ok |-> TRUE, heap |-> rest.heap,
                         items |-> <<Len(h1)>> \o rest.items]

\* ------------------------------------------------------------- resolver
ErrPathRequired == "Path argument is required"
ErrNotExist == "PathNotFound: does not exist"
ErrNoChildren == "PathNotFound: has no children"
ErrNotALeaf == "NotALeaf"
ErrInvalidLabel == "InvalidLabel"
ErrExpectedObject == "InvalidFormat: expected an object"
ErrExpectedTree == "InvalidFormat: expected tree state data"
ErrFileNotFound == "File not found"
ErrSyntax == "SyntaxError"
ErrInvalidValueType == "InvalidValueType"

Failure(e) == [err |-> e, ret |-> None]
Success(v) == [err |-> "", ret |-> Some(v)]

\* currentItems.find(item => itemLabel.toLowerCase() === part.toLowerCase()):
\* the first match, 0 when there is none.
Find(h, currentItems, part) ==
    LET Match(i) == ToLowerCase(ItemLabel(h[currentItems[i]].label)) = ToLowerCase(part)
    IN IF \E i \in 1..Len(currentItems) : Match(i)
       THEN currentItems[CHOOSE i \in 1..Len(currentItems) :
                            Match(i) /\ \A j \in 1..(i - 1) : ~Match(j)]
       ELSE 0

\* The loop `for (const part of pathParts)` from its i-th iteration on, and
\* the checks after it.
RECURSIVE Navigate(_, _, _, _, _)
Navigate(h, currentItems, pathParts, i, currentItem) ==
    IF i > Len(pathParts)
    THEN IF currentItem = 0 THEN Failure(ErrNotExist)
         ELSE IF ~IsSome(h[currentItem].value) THEN Failure(ErrNotALeaf)
         ELSE Success(Get(h[currentItem].value))
    ELSE
      LET part == pathParts[i]
          found == Find(h, currentItems, part)
      IN IF found = 0 THEN Failure(ErrNotExist)
         ELSE IF part # pathParts[Len(pathParts)]
         THEN IF ~IsSome(h[found].children) \/ Len(Get(h[found].children)) = 0
              THEN Failure(ErrNoChildren)
              ELSE Navigate(h, Get(h[found].children), pathParts, i + 1, found)
         ELSE Navigate(h, currentItems, pathParts, i + 1, found)

\* args is undefined (None) or {path}; an empty path is falsy.
ReplaceCommand(h, roots, args) ==
    IF ~IsSome(args) \/ Len(Get(args)) = 0
    THEN Failure(ErrPathRequired)
    ELSE Navigate(h, roots, Split(Get(args)), 1, 0)

\* ---------------------------------------------------------------- inputs
LabelInputs == {<<"a">>, <<"b">>, <<"a", Dot, "b">>}

ValueInputs == {StringValue("x"), StringValue("y")}

ChildValueInputs == {None} \cup {Some(StringOf(v)) : v \in ValueInputs}

ArgInputs == {None, Some(<<>>), Some(<<"a">>), Some(<<"B">>), Some(<<"a", Dot, "b">>)}

\* Import payloads: the empty tree, well-formed trees, trees with a dotted
\* string label at the top and below it, a tree with a dotted label given as
\* a TreeItemLabel object, an item that carries a value and children, and an
\* item with a child whose collapsibleState is None.
\* (TreeStateInputs, below.)

\* The resolver's specification builds trees of up to MaxResolveNodes items
\* over two labels and one value, and resolves every path of up to three
\* lower-case segments, two paths in upper case, the empty path and no
\* argument at all.
ResolveLabelInputs == {<<"a">>, <<"b">>}

ResolveValueInputs == {StringValue("x")}

ResolveSegments(n) ==
    UNION {[1..k -> ResolveLabelInputs] : k \in 1..n}

ResolveArgInputs ==
    {None, Some(<<>>), Some(<<"A">>), Some(<<"A", Dot, "B">>)}
    \cup {Some(Join(parts)) : parts \in ResolveSegments(3)}

JsonItem(label, value, children) ==
    [label |-> label, value |-> value, collapsibleState |-> "None", children |-> children]

JsonLeaf(text, value) == JsonItem(StringLabel(text), Some(value), None)

JsonParent(text, children) ==
    [label |-> StringLabel(text), value |-> None, collapsibleState |-> "Collapsed",
     children |-> Some(children)]

TreeStateInputs ==
    { <<>>,
      <<JsonLeaf(<<"a">>, "x")>>,
      <<JsonParent(<<"a">>, <<JsonLeaf(<<"b">>, "y")>>)>>,
      <<JsonLeaf(<<"b">>, "y"), JsonLeaf(<<"a", Dot, "b">>, "x")>>,
      <<JsonParent(<<"b">>, <<JsonLeaf(<<"a", Dot, "b">>, "x")>>)>>,
      <<JsonLeaf(<<"a">>, "x"), JsonLeaf(<<"b">>, "y"),
        JsonItem(ObjectLabel(<<"a", Dot, "b">>), Some("x"), None)>>,
      <<JsonItem(StringLabel(<<"a">>), Some("x"), Some(<<JsonLeaf(<<"b">>, "y")>>))>>,
      <<JsonItem(StringLabel(<<"b">>), None, Some(<<JsonLeaf(<<"a">>, "x")>>))>> }

\* What JSON.parse can return: null, a scalar, an array, or an object whose
\* treeState is absent (None) or present, an array or not.
JsonNull == [type |-> "null", treeState |-> None, items |-> <<>>]
JsonScalar == [type |-> "scalar", treeState |-> None, items |-> <<>>]
JsonArray(items) == [type |-> "array", treeState |-> None, items |-> items]
JsonObject(treeState) == [type |-> "object", treeState |-> treeState, items |-> <<>>]
TreeStateArray(items) == [isArray |-> TRUE, items |-> items]
TreeStateOther == [isArray |-> FALSE, items |-> <<>>]

\* What importTreeStateFromFile finds at filePath: no file, text that is not
\* JSON, or text that parses to data.
NoFile == [exists |-> FALSE, parses |-> FALSE, data |-> JsonNull]
BadJson == [exists |-> TRUE, parses |-> FALSE, data |-> JsonNull]
JsonFile(data) == [exists |-> TRUE, parses |-> TRUE, data |-> data]

FileInputs ==
    {NoFile, BadJson}
    \cup {JsonFile(d) : d \in {JsonNull, JsonScalar, JsonObject(None),
                               JsonObject(Some(TreeStateOther))}}
    \cup {JsonFile(JsonObject(Some(TreeStateArray(t)))) : t \in TreeStateInputs}
    \cup {JsonFile(JsonArray(t)) : t \in TreeStateInputs}

\* What jsonc.parse gives for the text of the configuration file: nothing
\* (an empty file), or an object whose inputs member is absent or a list of
\* entries.  Of an entry only its id is read.
ConfigNull == [type |-> "null", inputs |-> None]
ConfigObject(inputs) == [type |-> "object", inputs |-> inputs]

InputEntry(id) == [id |-> id, command |-> "workbench.action.tasks.runTask", path |-> <<>>]

DocumentInputs ==
    { ConfigNull,
      ConfigObject(None),
      ConfigObject(Some(<<>>)),
      ConfigObject(Some(<<InputEntry(<<"a">>)>>)),
      ConfigObject(Some(<<InputEntry(<<"o">>), InputEntry(<<"a", Dot, "b">>)>>)) }

\* --------------------------------------------------------------- actions
Items == 1..Len(heap)

\* What the last call did, as its caller and the subscribers see it: the
\* arguments of a resolver call, the error thrown ("" for none), the value
\* returned, the change events fired.
Result(op, err, ret, fired) ==
    [op |-> op, args |-> None, err |-> err, ret |-> ret, fired |-> fired]

Init ==
    /\ heap = <<>>
    /\ rootItems = <<>>
    /\ pending = <<>>
    /\ store = None
    /\ exported = None
    /\ document = ConfigObject(None)
    /\ out = Result("activate", "", None, 0)

\* A call that ends with refresh() but starts no write.
ChangedUnsaved(op, h, roots) ==
    /\ heap' = Collect(h, roots).heap
    /\ rootItems' = Collect(h, roots).items
    /\ out' = Result(op, "", None, 1)
    /\ UNCHANGED <<pending, store, exported, document>>

\* The tree after a call that left it as (h, roots); refresh() and
\* saveTreeState() end the call.
Changed(op, h, roots) ==
    /\ heap' = Collect(h, roots).heap
    /\ rootItems' = Collect(h, roots).items
    /\ pending' = SaveTreeState(pending, h, roots)
    /\ out' = Result(op, "", None, 1)
    /\ UNCHANGED <<store, exported, document>>

\* A throw that comes after refresh() and saveTreeState().
ThrownAfterRefresh(op, e) ==
    /\ out' = Result(op, e, None, 1)
    /\ pending' = SaveTreeState(pending, heap, rootItems)
    /\ UNCHANGED <<heap, rootItems, store, exported, document>>

Thrown(op, e) ==
    /\ out' = Result(op, e, None, 0)
    /\ UNCHANGED <<heap, rootItems, pending, store, exported, document>>

\* addRootItem without the check of the label.
AddRootItemUnchecked(label) ==
    Changed("addRootItem",
            Append(heap, NewItem(StringLabel(label), "None", None, None)),
            Append(rootItems, Len(heap) + 1))

AddRootItem(label) ==
    IF Includes(label, Dot)
    THEN Thrown("addRootItem", ErrInvalidLabel)
    ELSE Changed("addRootItem",
                 Append(heap, NewItem(StringLabel(label), "None", None, None)),
                 Append(rootItems, Len(heap) + 1))

AddChildToItem(parent, childLabel, childValue) ==
    IF Includes(childLabel, Dot)
    THEN Thrown("addChildToItem", ErrInvalidLabel)
    ELSE IF parent = Stale
    THEN Changed("addChildToItem", heap, rootItems)
    ELSE Changed("addChildToItem",
                 [Append(heap, NewItem(StringLabel(childLabel), "None", childValue, None))
                     EXCEPT ![parent] = ItemAddChild(heap[parent], Len(heap) + 1)],
                 rootItems)

\* removeItem that looks at the root items only.
RemoveItemRootOnly(item) ==
    IF IndexOf(rootItems, item) # 0
    THEN Changed("removeItem", heap, Splice(rootItems, IndexOf(rootItems, item)))
    ELSE /\ out' = Result("removeItem", "", None, 0)
         /\ UNCHANGED <<heap, rootItems, pending, store, exported, document>>

\* removeItemRecursively(items, itemToRemove) from the k-th element of items
\* on: [found, heap].
RECURSIVE RemoveItemRecursively(_, _, _, _)
RemoveItemRecursively(h, items, k, itemToRemove) ==
    IF k > Len(items) THEN [found |-> FALSE, heap |-> h]
    ELSE
      LET item == items[k]
      IN IF ~IsSome(h[item].children)
         THEN RemoveItemRecursively(h, items, k + 1, itemToRemove)
         ELSE IF ItemCanRemoveChild(h[item], itemToRemove)
         THEN [found |-> TRUE,
               heap |-> [h EXCEPT ![item] = ItemRemoveChild(h[item], itemToRemove)]]
         ELSE
           LET deeper == RemoveItemRecursively(h, Get(h[item].children), 1, itemToRemove)
           IN IF deeper.found THEN deeper
              ELSE RemoveItemRecursively(h, items, k + 1, itemToRemove)

\* removeItem that refreshes and saves whether or not it found the item.
RemoveItemRefreshing(item) ==
    IF IndexOf(rootItems, item) # 0
    THEN Changed("removeItem", heap, Splice(rootItems, IndexOf(rootItems, item)))
    ELSE IF RemoveItemRecursively(heap, rootItems, 1, item).found
    THEN Changed("removeItem", RemoveItemRecursively(heap, rootItems, 1, item).heap, rootItems)
    ELSE Changed("removeItem", heap, rootItems)

RemoveItem(item) ==
    IF IndexOf(rootItems, item) # 0
    THEN Changed("removeItem", heap, Splice(rootItems, IndexOf(rootItems, item)))
    ELSE IF RemoveItemRecursively(heap, rootItems, 1, item).found
    THEN Changed("removeItem", RemoveItemRecursively(heap, rootItems, 1, item).heap, rootItems)
    ELSE /\ out' = Result("removeItem", "", None, 0)
         /\ UNCHANGED <<heap, rootItems, pending, store, exported, document>>

\* setItemValue on an item whose setValue has no type check: String(value)
\* of an object is "[object Object]".
SetItemValueUnchecked(item, value) ==
    LET v == IF IsPrimitive(value) THEN value ELSE StringValue("[object Object]")
    IN IF item = Stale
       THEN Changed("setItemValue", heap, rootItems)
       ELSE Changed("setItemValue",
                    [heap EXCEPT ![item] = ItemSetValue(heap[item], v)], rootItems)

SetItemValue(item, value) ==
    IF ~IsPrimitive(value)
    THEN Thrown("setItemValue", ErrInvalidValueType)
    ELSE IF item = Stale
    THEN Changed("setItemValue", heap, rootItems)
    ELSE Changed("setItemValue",
                 [heap EXCEPT ![item] = ItemSetValue(heap[item], value)], rootItems)

\* The command debugConfigs.setValue: it refuses an item that has children
\* with an error message, and does nothing when the input box is dismissed
\* (input None).
ErrHasChildren == "HasChildren"

SetValueCommand(item, input) ==
    IF item # Stale /\ IsSome(heap[item].children) /\ Len(Get(heap[item].children)) > 0
    THEN Thrown("setValueCommand", ErrHasChildren)
    ELSE IF ~IsSome(input)
    THEN /\ out' = Result("setValueCommand", "", None, 0)
         /\ UNCHANGED <<heap, rootItems, pending, store, exported, document>>
    ELSE SetItemValue(item, StringValue(Get(input)))

\* clear that drops the last root item only.
ClearLast == Changed("clear", heap, SubSeq(rootItems, 1, Len(rootItems) - 1))

Clear == Changed("clear", heap, <<>>)

\* A resolver call that ends like a mutation, with refresh() and
\* saveTreeState().
ReplaceRefreshing(args) == Changed("replace", heap, rootItems)

Replace(args) ==
    /\ out' = [Result("replace", ReplaceCommand(heap, rootItems, args).err,
                      ReplaceCommand(heap, rootItems, args).ret, 0)
                 EXCEPT !.args = args]
    /\ UNCHANGED <<heap, rootItems, pending, store, exported, document>>

\* importTreeStateFromFile taking an object without an array treeState for an
\* empty tree state.
ImportTreeStateAnyObject(file) ==
    LET importData == file.data
        isEnvelope == IsSome(importData.treeState) /\ Get(importData.treeState).isArray
        treeStateJson == IF isEnvelope THEN Get(importData.treeState).items
                         ELSE importData.items
        d == DeserializeTreeItems(heap, treeStateJson)
    IN IF ~file.exists THEN Thrown("importTreeStateFromFile", ErrFileNotFound)
       ELSE IF ~file.parses THEN Thrown("importTreeStateFromFile", ErrSyntax)
       ELSE IF importData.type \notin {"object", "array"}
       THEN Thrown("importTreeStateFromFile", ErrExpectedObject)
       ELSE IF ~d.ok THEN Thrown("importTreeStateFromFile", ErrInvalidLabel)
       ELSE Changed("importTreeStateFromFile", d.heap, d.items)

\* importTreeStateFromFile that adds the imported roots behind the current ones.
ImportTreeStateAppending(file) ==
    LET importData == file.data
        isEnvelope == IsSome(importData.treeState) /\ Get(importData.treeState).isArray
        treeStateJson == IF isEnvelope THEN Get(importData.treeState).items
                         ELSE importData.items
        d == DeserializeTreeItems(heap, treeStateJson)
    IN IF ~file.exists THEN Thrown("importTreeStateFromFile", ErrFileNotFound)
       ELSE IF ~file.parses THEN Thrown("importTreeStateFromFile", ErrSyntax)
       ELSE IF importData.type \notin {"object", "array"}
       THEN Thrown("importTreeStateFromFile", ErrExpectedObject)
       ELSE IF ~isEnvelope /\ importData.type # "array"
       THEN Thrown("importTreeStateFromFile", ErrExpectedTree)
       ELSE IF ~d.ok THEN Thrown("importTreeStateFromFile", ErrInvalidLabel)
       ELSE Changed("importTreeStateFromFile", d.heap, rootItems \o d.items)

ImportTreeStateFromFile(file) ==
    LET importData == file.data
        isEnvelope == IsSome(importData.treeState) /\ Get(importData.treeState).isArray
        treeStateJson == IF isEnvelope THEN Get(importData.treeState).items
                         ELSE importData.items
        d == DeserializeTreeItems(heap, treeStateJson)
    IN IF ~file.exists THEN Thrown("importTreeStateFromFile", ErrFileNotFound)
       ELSE IF ~file.parses THEN Thrown("importTreeStateFromFile", ErrSyntax)
       ELSE IF importData.type \notin {"object", "array"}
       THEN Thrown("importTreeStateFromFile", ErrExpectedObject)
       ELSE IF ~isEnvelope /\ importData.type # "array"
       THEN Thrown("importTreeStateFromFile", ErrExpectedTree)
       ELSE IF ~d.ok THEN Thrown("importTreeStateFromFile", ErrInvalidLabel)
       ELSE Changed("importTreeStateFromFile", d.heap, d.items)

\* What the user answers to the warning of debugConfigs.importTree: the
\* button Continue, the button Cancel, or nothing (the dialog is dismissed).
ConfirmInputs == {"Continue", "Cancel", "Dismissed"}

\* The file picked in the open dialog, which is shown after Continue only:
\* None when the dialog is dismissed or never shown.
OpenUriInputs(confirmResult) ==
    IF confirmResult = "Continue"
    THEN {None} \cup {Some(file) : file \in FileInputs}
    ELSE {None}

\* The import command refreshing and saving the tree when it is cancelled.
ImportTreeCommandRefreshing(confirmResult, openUri) ==
    IF confirmResult # "Continue" \/ ~IsSome(openUri)
    THEN Changed("importTreeCommand", heap, rootItems)
    ELSE ImportTreeStateFromFile(Get(openUri))

\* The command debugConfigs.importTree: confirmResult is the answer to the
\* warning, openUri the file picked in the open dialog (None: the dialog is
\* dismissed).  An error of the import is caught and shown as a message.
ImportTreeCommand(confirmResult, openUri) ==
    IF confirmResult # "Continue" \/ ~IsSome(openUri)
    THEN /\ out' = Result("importTreeCommand", "", None, 0)
         /\ UNCHANGED <<heap, rootItems, pending, store, exported, document>>
    ELSE ImportTreeStateFromFile(Get(openUri))

\* exportTreeStateToFile writes {version, exportedAt, treeState} as JSON text;
\* what JSON.parse gives back for it is an object whose treeState is the
\* array of serialized roots (a member that is undefined is left out by
\* JSON.stringify and is undefined again when read).  Nothing on the import
\* side reads version or exportedAt.
ExportTreeStateToFile ==
    /\ exported' = Some(JsonFile(JsonObject(Some(TreeStateArray(
                        SerializeTreeItems(heap, rootItems))))))
    /\ out' = Result("exportTreeStateToFile", "", None, 0)
    /\ UNCHANGED <<heap, rootItems, pending, store, document>>

\* An input descriptor as the README shows it: {id, type: "command", command,
\* args: {path}}.
Descriptor(pathText) ==
    [id |-> pathText, command |-> "extension.debugconfigs.replace", path |-> pathText]

\* A generator that emits a descriptor for every item, leaf or not.
RECURSIVE GenerateCommandsJsonAll(_, _, _)
GenerateCommandsJsonAll(h, items, parentPath) ==
    IF Len(items) = 0 THEN <<>>
    ELSE LET item == h[items[1]]
             itemPath == Append(parentPath, ItemLabel(item.label))
         IN <<Descriptor(Join(itemPath))>>
            \o (IF IsSome(item.children)
                THEN GenerateCommandsJsonAll(h, Get(item.children), itemPath) ELSE <<>>)
            \o GenerateCommandsJsonAll(h, Tail(items), parentPath)

\* generateCommandsJson over `items` below the labels parentPath: the tree
\* in depth-first order, one descriptor for every item that holds a value,
\* id and path the labels from the root down, joined by dots.
RECURSIVE GenerateCommandsJson(_, _, _)
GenerateCommandsJson(h, items, parentPath) ==
    IF Len(items) = 0 THEN <<>>
    ELSE LET item == h[items[1]]
             itemPath == Append(parentPath, ItemLabel(item.label))
         IN (IF IsSome(item.value) THEN <<Descriptor(Join(itemPath))>> ELSE <<>>)
            \o (IF IsSome(item.children)
                THEN GenerateCommandsJson(h, Get(item.children), itemPath) ELSE <<>>)
            \o GenerateCommandsJson(h, Tail(items), parentPath)

\* The command debugConfigs.generateCommands up to the list it shows.
GenerateCommands ==
    /\ out' = [Result("generateCommands", "", None, 0)
                 EXCEPT !.ret = Some(GenerateCommandsJson(heap, rootItems, <<>>))]
    /\ UNCHANGED <<heap, rootItems, pending, store, exported, document>>

\* The commands of `commands` that filter keeps for the ids in existingIds.
RECURSIVE Filter(_, _)
Filter(commands, existingIds) ==
    IF Len(commands) = 0 THEN <<>>
    ELSE (IF Head(commands).id \in existingIds THEN <<>> ELSE <<Head(commands)>>)
         \o Filter(Tail(commands), existingIds)

ErrTypeError == "TypeError"

\* addToLaunchConfig without the filter on the existing ids.
AddToLaunchConfigUnfiltered(selected) ==
    LET commands == GenerateCommandsJson(heap, rootItems, <<>>)
        inputs == IF IsSome(document.inputs) THEN Get(document.inputs) ELSE <<>>
    IN /\ IF Len(commands) = 0 \/ ~selected
          THEN /\ out' = Result("addToLaunchConfig", "", None, 0)
               /\ UNCHANGED document
          ELSE IF document.type = "null"
          THEN /\ out' = Result("addToLaunchConfig", ErrTypeError, None, 0)
               /\ UNCHANGED document
          ELSE /\ document' = [document EXCEPT !.inputs = Some(inputs \o commands)]
               /\ out' = Result("addToLaunchConfig", "", None, 0)
       /\ UNCHANGED <<heap, rootItems, pending, store, exported>>

\* The command debugConfigs.addToLaunchConfig; selected: a configuration
\* file was found and picked.  It returns early without commands, without a
\* file and when no command is new; reading inputs of a file that parses to
\* nothing throws a TypeError that the outer catch shows as a message.  The
\* edits of jsonc.modify put the new commands behind the entries of inputs,
\* or create inputs from them.
AddToLaunchConfig(selected) ==
    LET commands == GenerateCommandsJson(heap, rootItems, <<>>)
        inputs == IF IsSome(document.inputs) THEN Get(document.inputs) ELSE <<>>
        existingIds == {inputs[k].id : k \in 1..Len(inputs)}
        newCommands == Filter(commands, existingIds)
    IN /\ IF Len(commands) = 0 \/ ~selected
          THEN /\ out' = Result("addToLaunchConfig", "", None, 0)
               /\ UNCHANGED document
          ELSE IF document.type = "null"
          THEN /\ out' = Result("addToLaunchConfig", ErrTypeError, None, 0)
               /\ UNCHANGED document
          ELSE IF Len(newCommands) = 0
          THEN /\ out' = Result("addToLaunchConfig", "", None, 0)
               /\ UNCHANGED document
          ELSE /\ document' = [document EXCEPT !.inputs = Some(inputs \o newCommands)]
               /\ out' = Result("addToLaunchConfig", "", None, 0)
       /\ UNCHANGED <<heap, rootItems, pending, store, exported>>

\* The user edits the configuration file.
EditDocument(config) ==
    /\ document' = config
    /\ UNCHANGED <<heap, rootItems, pending, store, exported, out>>

\* A write whose completion stores the tree as it is when the write
\* completes, not the payload the write was started with.
CompleteSaveLate ==
    /\ Len(pending) > 0
    /\ store' = Some(SerializeTreeItems(heap, rootItems))
    /\ pending' = Tail(pending)
    /\ UNCHANGED <<heap, rootItems, exported, document, out>>

\* Writes that reach the store newest first.
CompleteSaveNewestFirst ==
    /\ Len(pending) > 0
    /\ store' = Some(pending[Len(pending)])
    /\ pending' = SubSeq(pending, 1, Len(pending) - 1)
    /\ UNCHANGED <<heap, rootItems, exported, document, out>>

\* The await of workspaceState.update returns: the oldest write in flight
\* reaches the store.
CompleteSave ==
    /\ Len(pending) > 0
    /\ store' = Some(Head(pending))
    /\ pending' = Tail(pending)
    /\ UNCHANGED <<heap, rootItems, exported, document, out>>

\* The await of workspaceState.update throws: the catch of saveTreeState logs
\* the error; nobody awaits saveTreeState.
FailSave ==
    /\ Len(pending) > 0
    /\ pending' = Tail(pending)
    /\ UNCHANGED <<heap, rootItems, store, exported, document, out>>

\* loadTreeState that installs nothing but forgets the tree when the stored
\* state cannot be read or deserialized.
LoadTreeStateClearing(getFails) ==
    LET d == IF ~getFails /\ IsSome(store) THEN DeserializeTreeItems(heap, Get(store))
             ELSE [ok |-> FALSE, heap |-> heap, items |-> <<>>]
    IN /\ heap' = IF d.ok THEN Collect(d.heap, d.items).heap ELSE <<>>
       /\ rootItems' = IF d.ok THEN Collect(d.heap, d.items).items ELSE <<>>
       /\ out' = Result("loadTreeState", "", None, IF d.ok THEN 1 ELSE 0)
       /\ UNCHANGED <<pending, store, exported, document>>

\* loadTreeState on the provider as it is; getFails: workspaceState.get
\* throws.  Every failure ends in the catch, which logs it.
LoadTreeState(getFails) ==
    LET loaded == ~getFails /\ IsSome(store)
        d == IF loaded THEN DeserializeTreeItems(heap, Get(store))
             ELSE [ok |-> FALSE, heap |-> heap, items |-> <<>>]
    IN IF d.ok
       THEN /\ heap' = Collect(d.heap, d.items).heap
            /\ rootItems' = Collect(d.heap, d.items).items
            /\ out' = Result("loadTreeState", "", None, 1)
            /\ UNCHANGED <<pending, store, exported, document>>
       ELSE /\ out' = Result("loadTreeState", "", None, 0)
            /\ UNCHANGED <<heap, rootItems, pending, store, exported, document>>

\* The tree state key was written by a version of the extension that checks
\* no label (DebugConfigTree.ts before addRootItem had its check).
ForeignWrite(treeStateJson) ==
    /\ store' = Some(treeStateJson)
    /\ UNCHANGED <<heap, rootItems, pending, exported, document, out>>

\* A new session that never calls loadTreeState.
ActivateWithoutLoad ==
    /\ heap' = <<>>
    /\ rootItems' = <<>>
    /\ pending' = <<>>
    /\ out' = Result("activate", "", None, 0)
    /\ UNCHANGED <<store, exported, document>>

\* A new session: activate() builds a provider with no root items and calls
\* loadTreeState; the items of the session before are gone, and so are the
\* writes it had in flight.
Activate ==
    LET d == IF IsSome(store) THEN DeserializeTreeItems(<<>>, Get(store))
             ELSE [ok |-> FALSE, heap |-> <<>>, items |-> <<>>]
    IN /\ heap' = IF d.ok THEN Collect(d.heap, d.items).heap ELSE <<>>
       /\ rootItems' = IF d.ok THEN Collect(d.heap, d.items).items ELSE <<>>
       /\ pending' = <<>>
       /\ out' = Result("activate", "", None, IF d.ok THEN 1 ELSE 0)
       /\ UNCHANGED <<store, exported, document>>

\* ------------------------------------------- items handed to the provider
\* The provider's addChild, removeChild and updateData take items from their
\* caller: items of the tree, or items the caller has constructed.
ChildSet(h, i) ==
    IF IsSome(h[i].children)
    THEN {Get(h[i].children)[k] : k \in 1..Len(Get(h[i].children))}
    ELSE {}

\* The items found by following children from the items in found, at most n
\* times.
RECURSIVE Below(_, _, _)
Below(h, found, n) ==
    IF n = 0 THEN found
    ELSE Below(h, found \cup UNION {ChildSet(h, i) : i \in found}, n - 1)

Reachable(h, roots) == Below(h, {roots[k] : k \in 1..Len(roots)}, Len(h))

Descendants(h, i) == Below(h, ChildSet(h, i), Len(h))

\* The number of places where item x is held: entries of roots, and entries
\* of the child lists of the items reachable from roots.
Occurrences(h, roots, x) ==
    Cardinality({k \in 1..Len(roots) : roots[k] = x})
    + Cardinality({p \in UNION {{<<i, k>> : k \in 1..Len(Get(h[i].children))} :
                                   i \in {j \in Reachable(h, roots) : IsSome(h[j].children)}} :
                      Get(h[p[1]].children)[p[2]] = x})

Acyclic(h, roots) == \A i \in Reachable(h, roots) : i \notin Descendants(h, i)

SingleOwner(h, roots) == \A i \in Reachable(h, roots) : Occurrences(h, roots, i) = 1

\* refresh() and saveTreeState() after a call that left the items as
\* (h, roots), whatever their shape.  serializeTreeItems recurses without end
\* on a cycle: the RangeError is caught in saveTreeState and no write starts.
\* An item held in two places is serialized once for each.
Attached(op, h, roots) ==
    IF Acyclic(h, roots) /\ SingleOwner(h, roots)
    THEN Changed(op, h, roots)
    ELSE /\ heap' = h
         /\ rootItems' = roots
         /\ pending' = IF Acyclic(h, roots) THEN SaveTreeState(pending, h, roots)
                       ELSE pending
         /\ out' = Result(op, "", None, 1)
         /\ UNCHANGED <<store, exported, document>>

\* provider.addChild(parent, child) among the items h: those of the tree,
\* and behind them the item the caller has constructed for the call, if any.
AddChild(h, parent, child) ==
    Attached("addChild", [h EXCEPT ![parent] = ItemAddChild(h[parent], child)], rootItems)

\* provider.removeChild(parent, child) returns what item.removeChild returns,
\* and refreshes and saves only when that is true.
RemoveChild(parent, child) ==
    IF ItemCanRemoveChild(heap[parent], child)
    THEN LET h == [heap EXCEPT ![parent] = ItemRemoveChild(heap[parent], child)]
         IN /\ heap' = Collect(h, rootItems).heap
            /\ rootItems' = Collect(h, rootItems).items
            /\ pending' = SaveTreeState(pending, h, rootItems)
            /\ out' = Result("removeChild", "", Some("true"), 1)
            /\ UNCHANGED <<store, exported, document>>
    ELSE /\ out' = Result("removeChild", "", Some("false"), 0)
         /\ UNCHANGED <<heap, rootItems, pending, store, exported, document>>

UpdateData(newData) == Attached("updateData", heap, newData)

\* new DebugConfigTreeItem(label, None, value): the constructor stores what
\* it is given.
ConstructedInputs ==
    { NewItem(StringLabel(<<"b">>), "None", None, None),
      NewItem(StringLabel(<<"a", Dot, "b">>), "None", None, None) }

NodeValueInputs ==
    {StringValue("x"), NumberValue(1), BooleanValue(TRUE), BigintValue(1), ObjectValue}

NodeFileInputs ==
    {JsonFile(JsonArray(<<JsonItem(StringLabel(<<"a">>), Some("x"),
                                   Some(<<JsonLeaf(<<"b">>, "x")>>))>>))}

UpdateDataInputs == {<<>>} \cup [1..1 -> Items] \cup [1..2 -> Items]

\* -------------------------------------------------------- specifications
\* A command or a new session starts with fewer than MaxPending writes in
\* flight, and leaves a tree of at most n items.
Dispatch == Len(pending) < MaxPending

Fits(n) == Len(heap') <= n

\* The tree store from the empty tree, under its five mutations and the
\* resolver.
Next ==
    \/ \E label \in LabelInputs : Dispatch /\ AddRootItem(label) /\ Fits(MaxNodes)
    \/ \E parent \in Items \cup {Stale}, label \in LabelInputs, value \in ChildValueInputs :
          Dispatch /\ AddChildToItem(parent, label, value) /\ Fits(MaxNodes)
    \/ \E item \in Items \cup {Stale} : Dispatch /\ RemoveItem(item)
    \/ \E item \in Items \cup {Stale}, value \in ValueInputs :
          Dispatch /\ SetItemValue(item, value)
    \/ \E item \in Items \cup {Stale}, input \in {None, Some("x")} :
          Dispatch /\ SetValueCommand(item, input)
    \/ Dispatch /\ Clear
    \/ \E args \in ArgInputs : Dispatch /\ Replace(args)
    \/ Dispatch /\ GenerateCommands
    \/ CompleteSave

Spec == Init /\ [][Next]_vars

\* The resolver over the trees that addRootItem, addChildToItem and
\* setItemValue build.
NextResolve ==
    \/ \E label \in ResolveLabelInputs :
          Dispatch /\ AddRootItem(label) /\ Fits(MaxResolveNodes)
    \/ \E parent \in Items, label \in ResolveLabelInputs,
          value \in {None} \cup {Some(StringOf(v)) : v \in ResolveValueInputs} :
          Dispatch /\ AddChildToItem(parent, label, value) /\ Fits(MaxResolveNodes)
    \/ \E item \in Items, value \in ResolveValueInputs :
          Dispatch /\ SetItemValue(item, value)
    \/ \E args \in ResolveArgInputs : Dispatch /\ Replace(args)
    \/ CompleteSave

SpecResolve == Init /\ [][NextResolve]_vars

\* The tree store under all its operations: the five mutations, the import
\* of a file, and the load of a new session.
NextImport ==
    \/ \E label \in LabelInputs : Dispatch /\ AddRootItem(label) /\ Fits(MaxNodes)
    \/ \E parent \in Items, label \in LabelInputs, value \in ChildValueInputs :
          Dispatch /\ AddChildToItem(parent, label, value) /\ Fits(MaxNodes)
    \/ \E item \in Items \cup {Stale} : Dispatch /\ RemoveItem(item)
    \/ \E item \in Items, value \in ValueInputs : Dispatch /\ SetItemValue(item, value)
    \/ Dispatch /\ Clear
    \/ \E confirmResult \in ConfirmInputs :
          \E openUri \in OpenUriInputs(confirmResult) :
              Dispatch /\ ImportTreeCommand(confirmResult, openUri)
    \/ Activate
    \/ CompleteSave

SpecImport == Init /\ [][NextImport]_vars

\* Export of the tree and import of the exported file, between the mutations.
NextExport ==
    \/ \E label \in ResolveLabelInputs : Dispatch /\ AddRootItem(label) /\ Fits(MaxNodes)
    \/ \E parent \in Items, label \in ResolveLabelInputs,
          value \in {None} \cup {Some(StringOf(v)) : v \in ResolveValueInputs} :
          Dispatch /\ AddChildToItem(parent, label, value) /\ Fits(MaxNodes)
    \/ \E item \in Items : Dispatch /\ RemoveItem(item)
    \/ Dispatch /\ ExportTreeStateToFile
    \/ Dispatch /\ IsSome(exported) /\ ImportTreeStateFromFile(Get(exported))
    \/ CompleteSave

SpecExport == Init /\ [][NextExport]_vars

\* Persistence: up to MaxInFlight writes in flight while the tree changes,
\* writes that fail, loads that fail, and a store written by someone else.
PersistStoreInputs ==
    { <<JsonLeaf(<<"a", Dot, "b">>, "x")>>, <<JsonLeaf(<<"b">>, "y")>> }

InFlight == Len(pending) < MaxInFlight

NextPersist ==
    \/ \E label \in ResolveLabelInputs :
          InFlight /\ AddRootItem(label) /\ Fits(MaxPersistNodes)
    \/ \E parent \in Items, label \in ResolveLabelInputs,
          value \in {None} \cup {Some(StringOf(v)) : v \in ResolveValueInputs} :
          InFlight /\ AddChildToItem(parent, label, value) /\ Fits(MaxPersistNodes)
    \/ \E item \in Items : InFlight /\ RemoveItem(item)
    \/ \E getFails \in BOOLEAN : LoadTreeState(getFails)
    \/ \E treeStateJson \in PersistStoreInputs : ForeignWrite(treeStateJson)
    \/ Activate
    \/ CompleteSave
    \/ FailSave

SpecPersist == Init /\ [][NextPersist]_vars

\* The five mutations with up to MaxInFlight writes in flight, every write
\* completing, in the order of the calls of workspaceState.update.  The
\* extension host settles every update it was handed, so a write in flight
\* does not stay in flight for ever.
NextLive ==
    \/ \E label \in ResolveLabelInputs :
          InFlight /\ AddRootItem(label) /\ Fits(MaxPersistNodes)
    \/ \E parent \in Items, label \in ResolveLabelInputs,
          value \in {None} \cup {Some(StringOf(v)) : v \in ResolveValueInputs} :
          InFlight /\ AddChildToItem(parent, label, value) /\ Fits(MaxPersistNodes)
    \/ \E item \in Items \cup {Stale} : InFlight /\ RemoveItem(item)
    \/ \E item \in Items, value \in ResolveValueInputs :
          InFlight /\ SetItemValue(item, value)
    \/ InFlight /\ Clear
    \/ CompleteSave

SpecLive == Init /\ [][NextLive]_vars /\ WF_vars(CompleteSave)

\* The command that adds the generated commands to a configuration file,
\* over the trees of up to MaxPersistNodes items and the files of
\* DocumentInputs, with up to MaxInputs entries in a file.
NextLaunch ==
    \/ \E label \in ResolveLabelInputs :
          Dispatch /\ AddRootItem(label) /\ Fits(MaxPersistNodes)
    \/ \E parent \in Items, label \in ResolveLabelInputs,
          value \in {None} \cup {Some(StringOf(v)) : v \in ResolveValueInputs} :
          Dispatch /\ AddChildToItem(parent, label, value) /\ Fits(MaxPersistNodes)
    \/ \E item \in Items, value \in ResolveValueInputs :
          Dispatch /\ SetItemValue(item, value)
    \/ \E item \in Items : Dispatch /\ RemoveItem(item)
    \/ \E selected \in BOOLEAN :
          /\ Dispatch /\ AddToLaunchConfig(selected)
          /\ IsSome(document'.inputs) => Len(Get(document'.inputs)) <= MaxInputs
    \/ \E config \in DocumentInputs : Dispatch /\ EditDocument(config)
    \/ CompleteSave

SpecLaunch == Init /\ [][NextLaunch]_vars

\* The provider as a class: its callers hand it items and values of any
\* type.  A call starts on a tree; what addChild and updateData can make of it
\* is where the exploration ends.
WellFormed == Dispatch /\ Acyclic(heap, rootItems) /\ SingleOwner(heap, rootItems)

NextNode ==
    \/ WellFormed /\ AddRootItem(<<"a">>) /\ Fits(MaxNodeItems)
    \/ WellFormed /\ \E parent \in Items, child \in Items : AddChild(heap, parent, child)
    \/ WellFormed /\ \E parent \in Items, item \in ConstructedInputs :
          AddChild(Append(heap, item), parent, Len(heap) + 1) /\ Fits(MaxNodeItems)
    \/ WellFormed /\ \E parent \in Items, child \in Items : RemoveChild(parent, child)
    \/ WellFormed /\ \E newData \in UpdateDataInputs : UpdateData(newData)
    \/ WellFormed /\ \E item \in Items, value \in NodeValueInputs :
          SetItemValue(item, value)
    \/ WellFormed /\ \E file \in NodeFileInputs : ImportTreeStateFromFile(file)
    \/ CompleteSave

SpecNode == Init /\ [][NextNode]_vars

\* ---------------------------------------------------------------- claims
HasValue(i) == IsSome(heap[i].value)

HasChildren(i) == IsSome(heap[i].children) /\ Len(Get(heap[i].children)) > 0

\* C1: after any sequence of tree store mutations from the empty tree, no
\* item holds both a value and children, and a children list that is present
\* is not empty.
C1_ValueXorChildren ==
    \A i \in Items :
        /\ ~(HasValue(i) /\ IsSome(heap[i].children))
        /\ IsSome(heap[i].children) => Len(Get(heap[i].children)) > 0

\* C1 witness: a value was set while the tree holds an item with a value, an
\* item with children and an item with neither.
C1_Witness ==
    /\ out.op = "setItemValue"
    /\ \E i, j, k \in Items :
          HasValue(i) /\ HasChildren(j) /\ ~HasValue(k) /\ ~IsSome(heap[k].children)

\* C2 (as claimed): setItemValue on an item that has children fails with
\* HasChildren and leaves the tree unchanged.
C2_SetItemValueKeepsChildren ==
    [][\A item \in Items, value \in ValueInputs :
          (out'.op = "setItemValue" /\ HasChildren(item) /\ SetItemValue(item, value))
              => (out'.err = ErrHasChildren /\ heap' = heap /\ rootItems' = rootItems)]_vars


Dotted(text) == \E i \in DOMAIN text : text[i] = "."

Children(h, i) == IF IsSome(h[i].children) THEN Get(h[i].children) ELSE <<>>

\* The items that hold i in their children list.
ParentsOf(i) == {j \in Items : \E k \in 1..Len(Children(heap, j)) : Children(heap, j)[k] = i}

\* The labels from a root down to item i.
RECURSIVE LabelPath(_)
LabelPath(i) ==
    IF ParentsOf(i) = {}
    THEN <<ItemLabel(heap[i].label)>>
    ELSE Append(LabelPath(CHOOSE j \in ParentsOf(i) : TRUE), ItemLabel(heap[i].label))

LowerAll(parts) == [k \in 1..Len(parts) |-> ToLowerCase(parts[k])]

DistinctIgnoringCase(items) ==
    \A k, m \in 1..Len(items) :
        k # m => ToLowerCase(ItemLabel(heap[items[k]].label))
                    # ToLowerCase(ItemLabel(heap[items[m]].label))

DistinctSiblings ==
    /\ DistinctIgnoringCase(rootItems)
    /\ \A i \in Items : DistinctIgnoringCase(Children(heap, i))

\* C3 (as claimed): in a tree whose sibling labels are distinct ignoring
\* case, resolving the labels from a root down to a leaf, joined by dots and
\* in any letter case, returns the value of that leaf.
C3_ResolvesEveryLeaf ==
    (out.op = "replace" /\ IsSome(out.args) /\ DistinctSiblings) =>
        \A i \in Items :
            (HasValue(i) /\ ToLowerCase(Join(LabelPath(i))) = ToLowerCase(Get(out.args)))
                => (out.err = "" /\ out.ret = heap[i].value)

\* C4 (as claimed): the resolver returns a value only if it is the value of
\* an item whose labels from a root down to it are the segments of the path,
\* ignoring case.
C4_ReturnsOnlyChainValue ==
    (out.op = "replace" /\ out.err = "") =>
        \E i \in Items :
            /\ heap[i].value = out.ret
            /\ HasValue(i)
            /\ LowerAll(LabelPath(i)) = LowerAll(Split(Get(out.args)))

\* The descent the path describes: segment k is looked up among the children
\* of the item that matched segment k - 1 (the roots for k = 1).
RECURSIVE Descend(_, _, _)
Descend(items, segments, k) ==
    LET matches == {m \in 1..Len(items) :
                       ToLowerCase(ItemLabel(heap[items[m]].label)) = ToLowerCase(segments[k])}
        first == items[CHOOSE m \in matches : \A n \in matches : m <= n]
    IN IF matches = {} THEN [kind |-> "absent", item |-> 0]
       ELSE IF k = Len(segments) THEN [kind |-> "item", item |-> first]
       ELSE Descend(Children(heap, first), segments, k + 1)

\* C5 (as claimed): the resolver fails, and returns no value, when the path
\* is missing or empty, when a segment has no match ignoring case at the level
\* it is looked up in, and when the final segment matches an item without value.
C5_FailsWithoutValue ==
    out.op = "replace" =>
        LET Failed == out.err # "" /\ out.ret = None
        IN IF ~IsSome(out.args) \/ Get(out.args) = <<>>
           THEN Failed
           ELSE LET d == Descend(rootItems, Split(Get(out.args)), 1)
                IN /\ d.kind = "absent" => Failed
                   /\ (d.kind = "item" /\ ~HasValue(d.item)) => Failed

\* C6: addRootItem with a dotted label fails with InvalidLabel and leaves the
\* tree unchanged; with any other label it appends one new item without value
\* or children at the end of the root list, and changes no other item nor the
\* order of the roots.
C6_AddRootItem ==
    [][\A label \in LabelInputs :
          (out'.op = "addRootItem" /\ AddRootItem(label)) =>
            IF Dotted(label)
            THEN out'.err = ErrInvalidLabel /\ heap' = heap /\ rootItems' = rootItems
            ELSE /\ out'.err = ""
                 /\ Len(heap') = Len(heap) + 1
                 /\ \A i \in Items : heap'[i] = heap[i]
                 /\ Len(rootItems') = Len(rootItems) + 1
                 /\ SubSeq(rootItems', 1, Len(rootItems)) = rootItems
                 /\ rootItems'[Len(rootItems')] \notin Items
                 /\ heap'[rootItems'[Len(rootItems')]].label = StringLabel(label)
                 /\ heap'[rootItems'[Len(rootItems')]].value = None
                 /\ heap'[rootItems'[Len(rootItems')]].children = None]_vars

\* C6 witness: a root item was added after two others.
C6_Witness ==
    /\ out.op = "addRootItem"
    /\ out.err = ""
    /\ Len(rootItems) = 3
    /\ heap[rootItems[3]].label = StringLabel(<<"b">>)
    /\ heap[rootItems[1]].label = StringLabel(<<"a">>)

\* C7: addChildToItem with a dotted label fails with InvalidLabel and leaves
\* the tree unchanged; otherwise one new item is the last child of parent, a
\* leaf with the given value or an item without value and children, and all
\* other items keep their label, value, children and order.  (The new item
\* takes the index q after parent's subtree; the items behind it move by one.)
C7_AddChildToItem ==
    [][\A parent \in Items, label \in LabelInputs, value \in ChildValueInputs :
          (out'.op = "addChildToItem" /\ AddChildToItem(parent, label, value)) =>
            IF Dotted(label)
            THEN out'.err = ErrInvalidLabel /\ heap' = heap /\ rootItems' = rootItems
            ELSE LET kids == Children(heap, parent)
                     kids2 == Children(heap', parent)
                     q == kids2[Len(kids2)]
                     Shift(i) == IF i < q THEN i ELSE i + 1
                     ShiftAll(items) == [k \in 1..Len(items) |-> Shift(items[k])]
                 IN /\ out'.err = ""
                    /\ Len(heap') = Len(heap) + 1
                    /\ Len(kids2) = Len(kids) + 1
                    /\ SubSeq(kids2, 1, Len(kids)) = ShiftAll(kids)
                    /\ q \notin {Shift(i) : i \in Items}
                    /\ heap'[q].label = StringLabel(label)
                    /\ heap'[q].value = value
                    /\ heap'[q].children = None
                    /\ heap'[parent].label = heap[parent].label
                    /\ rootItems' = ShiftAll(rootItems)
                    /\ \A i \in Items \ {parent} :
                          /\ heap'[Shift(i)].label = heap[i].label
                          /\ heap'[Shift(i)].value = heap[i].value
                          /\ Children(heap', Shift(i)) = ShiftAll(Children(heap, i))
                          /\ IsSome(heap'[Shift(i)].children) = IsSome(heap[i].children)]_vars

\* C7 witness: a leaf with value "y" was added as the second child of an item
\* whose first child has another label.
C7_Witness ==
    /\ out.op = "addChildToItem"
    /\ out.err = ""
    /\ \E p \in Items :
          /\ Len(Children(heap, p)) = 2
          /\ heap[Children(heap, p)[2]].value = Some("y")
          /\ heap[Children(heap, p)[2]].label = StringLabel(<<"b">>)
          /\ heap[Children(heap, p)[1]].label = StringLabel(<<"a">>)

\* C8 (as claimed): after addRootItem, addChildToItem, imports and loads, no
\* item of the tree has a label that contains a dot.
C8_NoDottedLabel ==
    \A i \in Items : ~Dotted(ItemLabel(heap[i].label))

\* Some item of the payload, at any depth, has a label that contains a dot.
RECURSIVE PayloadDotted(_)
PayloadDotted(data) ==
    \E k \in 1..Len(data) :
        \/ Dotted(ItemLabel(data[k].label))
        \/ IsSome(data[k].children) /\ PayloadDotted(Get(data[k].children))

\* The array of items a parsed payload carries: the treeState of an envelope
\* or the bare array itself.
PayloadItems(data) ==
    IF IsSome(data.treeState) THEN Get(data.treeState).items ELSE data.items

\* C9 (as claimed): the import of a payload in which some item has a dotted
\* label raises an error and leaves the tree as it was.
C9_DottedImportFails ==
    [][\A file \in FileInputs :
          (/\ out'.op = "importTreeStateFromFile"
           /\ file.parses
           /\ PayloadDotted(PayloadItems(file.data))
           /\ ImportTreeStateFromFile(file))
              => (out'.err # "" /\ heap' = heap /\ rootItems' = rootItems)]_vars

\* A parsed payload has one of the two shapes: an object whose treeState is
\* an array, or an array.
AcceptedShape(data) ==
    \/ data.type = "object" /\ IsSome(data.treeState) /\ Get(data.treeState).isArray
    \/ data.type = "array"

\* C10: the import of a parsed payload of any other shape than the two fails
\* with InvalidFormat and leaves the tree unchanged; a payload of one of the
\* two shapes never fails with InvalidFormat, and unless a label is rejected
\* its items become the tree.
C10_ImportShapes ==
    [][\A file \in FileInputs :
          (/\ out'.op = "importTreeStateFromFile"
           /\ file.exists /\ file.parses
           /\ ImportTreeStateFromFile(file))
              => IF AcceptedShape(file.data)
                 THEN /\ out'.err \in {"", ErrInvalidLabel}
                      /\ out'.err = "" =>
                            SerializeTreeItems(heap', rootItems') = PayloadItems(file.data)
                 ELSE /\ out'.err \in {ErrExpectedObject, ErrExpectedTree}
                      /\ heap' = heap
                      /\ rootItems' = rootItems]_vars

\* C10 witness: an import failed on the shape of its payload while the tree
\* held an item with a child.
C10_Witness ==
    /\ out.op = "importTreeStateFromFile"
    /\ out.err = ErrExpectedTree
    /\ \E i \in Items : HasChildren(i)

\* C11: deserializing the serialization of a tree built by the mutations
\* gives the same tree: the same roots in the same order, and for every item
\* the same label, value, children in the same order, and display state.
C11_RoundTrip ==
    LET d == DeserializeTreeItems(<<>>, SerializeTreeItems(heap, rootItems))
    IN /\ d.ok
       /\ Collect(d.heap, d.items).heap = heap
       /\ Collect(d.heap, d.items).items = rootItems

\* C11 witness: the tree holds an item with two children, one of them a leaf
\* with a value and the other without value and children.
C11_Witness ==
    \E p \in Items :
        /\ Len(Children(heap, p)) = 2
        /\ HasValue(Children(heap, p)[1])
        /\ ~HasValue(Children(heap, p)[2])
        /\ ~IsSome(heap[Children(heap, p)[2]].children)

\* C12: the file that an export writes deserializes to the tree as it is at
\* the export, and an import of that file, whatever the tree is then, makes
\* the tree equal to what the file deserializes to: the roots and items of
\* the file in their order, and no item of the tree before.
C12_ExportThenImport ==
    [][/\ (out'.op = "exportTreeStateToFile" /\ ExportTreeStateToFile) =>
            LET d == DeserializeTreeItems(<<>>, PayloadItems(Get(exported').data))
            IN /\ d.ok
               /\ Collect(d.heap, d.items).heap = heap
               /\ Collect(d.heap, d.items).items = rootItems
       /\ (/\ out'.op = "importTreeStateFromFile"
           /\ IsSome(exported)
           /\ ImportTreeStateFromFile(Get(exported))) =>
            LET d == DeserializeTreeItems(<<>>, PayloadItems(Get(exported).data))
            IN /\ out'.err = ""
               /\ heap' = Collect(d.heap, d.items).heap
               /\ rootItems' = Collect(d.heap, d.items).items]_vars

\* C12 witness: the exported file, a tree of three items, was imported while
\* the tree was another one, not empty (the store holds its last save).
C12_Witness ==
    /\ out.op = "importTreeStateFromFile"
    /\ out.err = ""
    /\ IsSome(exported)
    /\ SerializeTreeItems(heap, rootItems) = PayloadItems(Get(exported).data)
    /\ Len(heap) = 3
    /\ IsSome(store)
    /\ Len(Get(store)) > 0
    /\ Get(store) # PayloadItems(Get(exported).data)

\* C13 (as claimed): after an import or a load, no item of the tree holds
\* both a value and children.
C13_InstalledValueXorChildren ==
    out.op \in {"importTreeStateFromFile", "activate"} =>
        \A i \in Items : ~(HasValue(i) /\ IsSome(heap[i].children))

MutatingOps ==
    {"addRootItem", "addChildToItem", "removeItem", "setItemValue", "clear",
     "importTreeStateFromFile"}

\* C14: every step of a mutating operation that succeeds (for removeItem:
\* that is handed an item of the tree) fires the change notification, and
\* starts a write that carries the serialization of the tree as the
\* operation leaves it.
C14_MutationNotifiesAndSaves ==
    [][(/\ out'.op \in MutatingOps
        /\ out'.err = ""
        /\ ~CompleteSave
        /\ ~Activate
        /\ out'.op = "removeItem" => \E item \in Items : RemoveItem(item))
          => (/\ out'.fired >= 1
              /\ pending' = Append(pending, SerializeTreeItems(heap', rootItems')))]_vars

\* C14 witness: removeItem took an item out of a tree and left items behind;
\* its write is in flight and the store still holds another tree.
C14_Witness ==
    /\ out.op = "removeItem"
    /\ out.fired = 1
    /\ Len(heap) > 0
    /\ Len(pending) = 1
    /\ pending[1] = SerializeTreeItems(heap, rootItems)
    /\ IsSome(store)
    /\ Get(store) # pending[1]

\* deserializeTreeItems throws on the payload: some item of it, at any depth,
\* has a label the check rejects.
RECURSIVE PayloadRejected(_)
PayloadRejected(data) ==
    \E k \in 1..Len(data) :
        \/ LabelRejected(data[k].label)
        \/ IsSome(data[k].children) /\ PayloadRejected(Get(data[k].children))

\* C15: a write that fails raises nothing and changes nothing of the tree;
\* a load whose get fails, or whose stored state cannot be deserialized,
\* raises nothing and leaves the tree as it was.
C15_PersistenceFailureIsSilent ==
    [][/\ FailSave => (out' = out /\ heap' = heap /\ rootItems' = rootItems)
       /\ \A getFails \in BOOLEAN :
            (/\ out'.op = "loadTreeState"
             /\ LoadTreeState(getFails)
             /\ (getFails \/ (IsSome(store) /\ PayloadRejected(Get(store)))))
                => (out'.err = "" /\ heap' = heap /\ rootItems' = rootItems)]_vars

\* C15 witness: a load found a stored state that cannot be deserialized while
\* the tree held items.
C15_Witness ==
    /\ out.op = "loadTreeState"
    /\ out.fired = 0
    /\ Len(heap) > 0
    /\ IsSome(store)
    /\ PayloadRejected(Get(store))

\* C16: a write is started with the serialization of the tree as it is at
\* that moment; a payload in flight never changes, whatever mutations follow;
\* and the write that completes stores the payload it was started with.
C16_SaveWritesSnapshot ==
    [][/\ Len(pending') > Len(pending) =>
            pending' = Append(pending, SerializeTreeItems(heap', rootItems'))
       /\ Len(pending') <= Len(pending) =>
            pending' \in {pending, SubSeq(pending, 2, Len(pending)), <<>>}
       /\ (Len(pending) > 0 /\ pending' = Tail(pending) /\ store' # store) =>
            store' = Some(Head(pending))]_vars

\* C16 witness: two writes are in flight, the older one with the payload of a
\* tree that a later mutation has changed.
C16_Witness ==
    /\ Len(pending) = 2
    /\ pending[1] # pending[2]
    /\ pending[2] = SerializeTreeItems(heap, rootItems)
    /\ Len(pending[1]) > 0

\* Item i and everything below it.
Subtree(i) ==
    {i} \cup {PreOrder(heap, Children(heap, i))[k] :
                k \in 1..Len(PreOrder(heap, Children(heap, i)))}

\* The list `items` without x.
Without(items, x) == SelectSeq(items, LAMBDA y : y # x)

\* C17: removeItem of an item of the tree, a root or an item at any depth,
\* takes the item and everything below it out of the tree; every other item
\* keeps its label, its value, its place in the same list and the order of
\* its children.  (The items that stay keep their order in the heap, so item
\* i moves down by the number of removed items before it.)
C17_RemoveItemAnywhere ==
    [][\A item \in Items :
          (out'.op = "removeItem" /\ RemoveItem(item)) =>
            LET gone == Subtree(item)
                Shift(i) == i - Cardinality({g \in gone : g < i})
                ShiftAll(items) == [k \in 1..Len(items) |-> Shift(items[k])]
            IN /\ out'.err = ""
               /\ Len(heap') = Len(heap) - Cardinality(gone)
               /\ rootItems' = ShiftAll(Without(rootItems, item))
               /\ \A i \in Items \ gone :
                     /\ heap'[Shift(i)].label = heap[i].label
                     /\ heap'[Shift(i)].value = heap[i].value
                     /\ Children(heap', Shift(i))
                          = ShiftAll(Without(Children(heap, i), item))]_vars

\* C17 witness: removeItem took the item at the third level out of a tree of
\* a root, its child and the child of that (the store holds the tree before).
C17_Witness ==
    /\ out.op = "removeItem"
    /\ out.fired = 1
    /\ Len(heap) = 2
    /\ Len(rootItems) = 1
    /\ IsSome(store)
    /\ Len(Get(store)) = 1
    /\ IsSome(Get(store)[1].children)
    /\ IsSome(Get(Get(store)[1].children)[1].children)

\* C18 (as claimed): removeItem returns true when the item was in the tree
\* and false when it was not.
C18_RemoveItemReturnsFound ==
    [][\A item \in Items \cup {Stale} :
          (out'.op = "removeItem" /\ RemoveItem(item)) =>
            out'.ret = Some(item \in Items)]_vars

\* The items that hold a value, in depth-first order (the order of the heap).
Leaves == SelectSeq([i \in 1..Len(heap) |-> i], LAMBDA i : HasValue(i))

C20_GeneratedPathsResolve ==
    (out.op = "generateCommands" /\ DistinctSiblings) =>
        \A k \in 1..Len(Get(out.ret)) :
            ReplaceCommand(heap, rootItems, Some(Get(out.ret)[k].path))
                = Success(Get(heap[Leaves[k]].value))

\* C21: an import that is cancelled, at the warning (Cancel, or the warning
\* dismissed) or at the file dialog (no file picked), leaves the tree as it
\* was, fires no change notification and starts no write.
C21_CancelledImport ==
    [][(out'.op = "importTreeCommand" /\ ~CompleteSave) =>
        \A confirmResult \in ConfirmInputs :
          (ImportTreeCommand(confirmResult, None))
              => (/\ heap' = heap
                  /\ rootItems' = rootItems
                  /\ pending' = pending
                  /\ store' = store
                  /\ out'.fired = 0
                  /\ out'.err = "")]_vars

\* C21 witness: an import was cancelled while the tree held an item with a
\* child.
C21_Witness ==
    /\ out.op = "importTreeCommand"
    /\ \E i \in Items : HasChildren(i)

\* C22: the store is written by completed saves only, so it holds the payload
\* of the last one; the tree a new session loads from it serializes to that
\* very payload (same labels, values and child order as the tree at that
\* save), and with nothing stored the new session's tree is empty.
C22_RestoredBetweenSessions ==
    [][(out'.op = "activate" /\ Activate) =>
         IF IsSome(store)
         THEN SerializeTreeItems(heap', rootItems') = Get(store)
         ELSE heap' = <<>> /\ rootItems' = <<>>]_vars

\* C22 witness: a new session has loaded a tree with two root items, the
\* first of them a parent, from the store.
C22_Witness ==
    /\ out.op = "activate"
    /\ out.fired = 1
    /\ pending = <<>>
    /\ IsSome(store)
    /\ Len(rootItems) = 2
    /\ HasChildren(rootItems[1])
    /\ SerializeTreeItems(heap, rootItems) = Get(store)

\* C23: after any sequence of provider calls the tree is acyclic and
\* single-owner: no item is below itself, and every item of the tree is held
\* in one place, once in the root items or once in one child list.
C23_AcyclicSingleOwner ==
    /\ Acyclic(heap, rootItems)
    /\ SingleOwner(heap, rootItems)

\* C24: constructing an item with a label that contains '.' fails with
\* InvalidLabel, so a call that is handed such an item never takes place and
\* the tree never holds an item constructed with a dotted label.
C24_ConstructorRejectsDottedLabel ==
    [][out'.op = "addChild" =>
        \A parent \in Items, item \in ConstructedInputs :
          (/\ Dotted(item.label.text)
           /\ AddChild(Append(heap, item), parent, Len(heap) + 1))
              => (/\ out'.err = ErrInvalidLabel
                  /\ heap' = heap
                  /\ rootItems' = rootItems)]_vars

\* C25: clear() leaves a tree without items, whatever the tree was: the root
\* list is empty, the resolver fails for every argument, and the generator
\* emits no descriptor.
C25_ClearEmptiesTree ==
    [][(out'.op = "clear" /\ Clear) =>
        /\ heap' = <<>>
        /\ rootItems' = <<>>
        /\ \A args \in ArgInputs : ReplaceCommand(heap', rootItems', args).err # ""
        /\ GenerateCommandsJson(heap', rootItems', <<>>) = <<>>]_vars

\* C25 witness: clear() has emptied a tree that was saved with a parent and
\* its child in it.
C25_Witness ==
    /\ out.op = "clear"
    /\ heap = <<>>
    /\ IsSome(store)
    /\ \E k \in 1..Len(Get(store)) : IsSome(Get(store)[k].children)

\* C26: item.addChild(child) appends child as the last entry of the item's
\* child list, which it creates when the item had none; the item has no
\* value afterwards and its expansion hint is Collapsed (expandable); the
\* children it had are the same items in the same order.  Checked for a
\* child that is an item of the tree and for a child the caller constructed
\* (the constructed item is then the last child, q).
C26_NodeAddChild ==
    [][out'.op = "addChild" =>
        \A parent \in Items :
          /\ \A child \in Items :
                (Len(heap') = Len(heap) /\ AddChild(heap, parent, child)) =>
                  /\ IsSome(heap'[parent].children)
                  /\ Children(heap', parent) = Append(Children(heap, parent), child)
                  /\ heap'[parent].value = None
                  /\ heap'[parent].collapsibleState = "Collapsed"
          /\ \A item \in ConstructedInputs :
                (/\ Len(heap') = Len(heap) + 1
                 /\ AddChild(Append(heap, item), parent, Len(heap) + 1)) =>
                  LET kids == Children(heap, parent)
                      kids2 == Children(heap', parent)
                      q == kids2[Len(kids2)]
                  IN /\ IsSome(heap'[parent].children)
                     /\ Len(kids2) = Len(kids) + 1
                     /\ SubSeq(kids2, 1, Len(kids)) = kids
                     /\ \A k \in 1..Len(kids) : heap'[kids[k]].label = heap[kids[k]].label
                     /\ q \notin {kids[k] : k \in 1..Len(kids)}
                     /\ heap'[q].label = item.label
                     /\ heap'[q].children = None
                     /\ heap'[parent].value = None
                     /\ heap'[parent].collapsibleState = "Collapsed"]_vars

\* C26 witness: addChild has given an item a second child, a constructed
\* item, behind a first child that is a leaf.
C26_Witness ==
    /\ out.op = "addChild"
    /\ Acyclic(heap, rootItems) /\ SingleOwner(heap, rootItems)
    /\ \E i \in Items :
          /\ Len(Children(heap, i)) = 2
          /\ HasValue(Children(heap, i)[1])
          /\ heap[Children(heap, i)[2]].label = StringLabel(<<"b">>)
          /\ ~HasValue(Children(heap, i)[2])

\* C27: item.removeChild(child) removes the entry that is child and keeps the
\* other children in their order; when it removes the last child the child
\* list is absent, the expansion hint is None (non-expandable) and the item
\* is a parent without value; when child is not among the children the item
\* is unchanged and false is returned.  (The items behind the removed
\* subtree move up by its size.)
C27_NodeRemoveChild ==
    [][out'.op = "removeChild" =>
        \A parent \in Items, child \in Items :
          RemoveChild(parent, child) =>
            LET kids == Children(heap, parent)
                at == IndexOf(kids, child)
                size == Len(heap) - Len(heap')
                Shift(i) == IF i < child THEN i ELSE i - size
                rest == Splice(kids, at)
            IN IF at = 0
               THEN /\ out'.ret = Some("false")
                    /\ heap' = heap
                    /\ rootItems' = rootItems
               ELSE /\ out'.ret = Some("true")
                    /\ Children(heap', parent) = [k \in 1..Len(rest) |-> Shift(rest[k])]
                    /\ \A k \in 1..Len(rest) :
                          heap'[Shift(rest[k])].label = heap[rest[k]].label
                    /\ Len(rest) = 0 =>
                          /\ heap'[parent].children = None
                          /\ heap'[parent].collapsibleState = "None"
                          /\ heap'[parent].value = None
                          /\ heap'[parent].contextValue = "parent"]_vars

\* The scalar types of a value, and the text that stands for a scalar.
Scalar(v) == v.type \in {"string", "number", "boolean", "bigint"}

TextForm(v) ==
    CASE v.type = "string" -> v.str
      [] v.type = "number" /\ v.num = 1 -> "1"
      [] v.type = "boolean" /\ v.bool -> "true"
      [] v.type = "bigint" /\ v.big = 1 -> "1"

\* C28: setValue with a string, a number, a boolean or a bigint stores the
\* text of the value and makes the children absent: the item is a leaf
\* without children afterwards, whatever it was.
C28_NodeSetValueScalar ==
    [][(out'.op = "setItemValue" /\ out'.err = "") =>
        \A item \in Items, value \in NodeValueInputs :
          (Scalar(value) /\ SetItemValue(item, value)) =>
            /\ heap'[item].value = Some(TextForm(value))
            /\ heap'[item].children = None
            /\ heap'[item].contextValue = "leaf"
            /\ heap'[item].label = heap[item].label]_vars

\* C28 witness: setItemValue has stored the text "true" in the only root
\* item, which was saved as an item with children.
C28_Witness ==
    /\ out.op = "setItemValue"
    /\ out.err = ""
    /\ Len(rootItems) = 1
    /\ heap[rootItems[1]].value = Some("true")
    /\ ~HasChildren(rootItems[1])
    /\ IsSome(store)
    /\ Len(Get(store)) = 1
    /\ IsSome(Get(store)[1].children)

\* C29: setValue with a value that is no string, number, boolean or bigint
\* fails with InvalidValueType; the item keeps its value, its children and
\* its expansion hint, nothing is fired and nothing is saved.
C29_NodeSetValueNonScalar ==
    [][out'.op = "setItemValue" =>
        \A item \in Items, value \in NodeValueInputs :
          (~Scalar(value) /\ SetItemValue(item, value)) =>
            /\ out'.err = ErrInvalidValueType
            /\ heap' = heap
            /\ rootItems' = rootItems
            /\ pending' = pending
            /\ out'.fired = 0]_vars

\* C29 witness: setItemValue with an object has failed on a tree that holds
\* an item with a child and a leaf.
C29_Witness ==
    /\ out.op = "setItemValue"
    /\ out.err = ErrInvalidValueType
    /\ \E i \in Items : HasChildren(i)
    /\ \E i \in Items : HasValue(i)

\* C30: the resolver matches every segment ignoring case among the children
\* of the item matched before it (the roots for the first segment), and among
\* several matching siblings it goes on with the first: when that descent
\* ends at an item with a value the call returns that value, and whatever
\* value the call returns is the value of the item that descent ends at.
C30_FirstMatchIgnoringCase ==
    (out.op = "replace" /\ IsSome(out.args) /\ Get(out.args) # <<>>) =>
        LET d == Descend(rootItems, Split(Get(out.args)), 1)
        IN /\ (d.kind = "item" /\ HasValue(d.item)) =>
                 (out.err = "" /\ out.ret = heap[d.item].value)
           /\ out.err = "" =>
                 (d.kind = "item" /\ out.ret = heap[d.item].value)

\* C31: a resolver call, whether it returns a value or fails, changes no
\* item and no root list, fires no change event and starts no write.
C31_ResolverMutatesNothing ==
    [][out'.op = "replace" =>
        \A args \in ArgInputs :
          Replace(args) =>
            /\ heap' = heap
            /\ rootItems' = rootItems
            /\ pending' = pending
            /\ store' = store
            /\ out'.fired = 0]_vars

\* C31 witness: the resolver has returned the value of a leaf below a root
\* item, with no write in flight.
C31_Witness ==
    /\ out.op = "replace"
    /\ out.err = ""
    /\ out.args = Some(<<"a", Dot, "b">>)
    /\ pending = <<>>
    /\ \E i \in Items : HasChildren(i)

\* C32: no state in which a resolver or generator call can run, and no
\* state at a change notification, is the middle of a mutation: no item holds
\* a value and children at once, and the tree at a notification is the tree
\* that the write started by the same call carries.
C32_NoIntermediateState ==
    /\ \A i \in Items : ~(HasValue(i) /\ HasChildren(i))
    /\ (out.fired = 1 /\ Len(pending) > 0) =>
           pending[Len(pending)] = SerializeTreeItems(heap, rootItems)

\* C33: in every state, for every item, contextValue is 'leaf' exactly when
\* the item holds a value and 'parent' otherwise, and the description is the
\* value of an item that holds one and absent otherwise.
C33_DisplayAgreesWithData ==
    \A i \in Items :
        /\ heap[i].contextValue = (IF HasValue(i) THEN "leaf" ELSE "parent")
        /\ HasValue(i) => heap[i].description = heap[i].value
        /\ ~HasValue(i) => heap[i].description = None

\* C33 witness: the tree holds a parent that lost its value to addChild and
\* a leaf whose value was given as a boolean.
C33_Witness ==
    /\ out.op = "addChild"
    /\ \E i \in Items :
          /\ HasChildren(i)
          /\ heap[i].contextValue = "parent"
          /\ IsSome(store)
          /\ Len(Get(store)) = 1
          /\ IsSome(Get(store)[1].value)
          /\ rootItems = <<i>>
    /\ \E j \in Items : heap[j].value = Some("true") /\ heap[j].description = Some("true")

\* C34: in every state the expansion hint of an item is Collapsed or
\* Expanded exactly when the item has at least one child, and None exactly
\* when it has none.
C34_HintFromChildren ==
    \A i \in Items :
        /\ heap[i].collapsibleState \in {"Collapsed", "Expanded"} <=> HasChildren(i)
        /\ heap[i].collapsibleState = "None" <=> ~HasChildren(i)

\* data is the list of records of the items: as many records as items, in
\* their order, each with the label and the value of its item, and with a
\* children entry, the records of the item's children, exactly when the item
\* has a child list.
RECURSIVE RecordsOf(_, _)
RecordsOf(items, data) ==
    /\ Len(data) = Len(items)
    /\ \A k \in 1..Len(items) :
          /\ data[k].label = heap'[items[k]].label
          /\ data[k].value = heap'[items[k]].value
          /\ IsSome(data[k].children) <=> IsSome(heap'[items[k]].children)
          /\ IsSome(data[k].children) =>
                RecordsOf(Get(heap'[items[k]].children), Get(data[k].children))

Aborted ==
    /\ out'.err # ""
    /\ out'.fired = 0
    /\ pending' = pending
    /\ store' = store
    /\ heap' = heap
    /\ rootItems' = rootItems

\* C36: addRootItem and addChildToItem with a dotted label, and an import
\* that fails (no file, no JSON, a wrong shape, a rejected label), fire no
\* change event, start no write and leave tree and store as they were.
C36_FailedValidationIsSilent ==
    [][/\ out'.op = "addRootItem" =>
            \A label \in LabelInputs :
                (Dotted(label) /\ AddRootItem(label)) => Aborted
       /\ out'.op = "addChildToItem" =>
            \A parent \in Items, label \in LabelInputs, value \in ChildValueInputs :
                (Dotted(label) /\ AddChildToItem(parent, label, value)) => Aborted
       /\ (out'.op = "importTreeStateFromFile" /\ out'.err # "") =>
            \A file \in FileInputs :
                ImportTreeStateFromFile(file) => Aborted]_vars

\* C36 witness: an import was refused for a label while the tree held items
\* and no write was in flight.
C36_Witness ==
    /\ out.op = "importTreeStateFromFile"
    /\ out.err = ErrInvalidLabel
    /\ out.fired = 0
    /\ Len(heap) > 1
    /\ pending = <<>>

\* C37: removeItem of an item that is not in the tree, because it never was
\* or because it was removed before, changes no item and no root list, fires
\* no change event and starts no write: a second removal of the same item
\* adds nothing to the first.
C37_RemoveAbsentItem ==
    [][(out'.op = "removeItem" /\ RemoveItem(Stale)) =>
        /\ heap' = heap
        /\ rootItems' = rootItems
        /\ pending' = pending
        /\ store' = store
        /\ out'.fired = 0
        /\ out'.err = ""]_vars

\* C37 witness: removeItem was handed an item that is not in the tree while
\* the tree held a parent and its child, with the tree saved and no write in
\* flight.
C37_Witness ==
    /\ out.op = "removeItem"
    /\ out.fired = 0
    /\ pending = <<>>
    /\ \E i \in Items : HasChildren(i)
    /\ IsSome(store)
    /\ Get(store) = SerializeTreeItems(heap, rootItems)

\* A call starts a write.
WriteStarted == Len(pending') > Len(pending)

\* Nothing is in flight and the store holds the serialization of the tree;
\* a store that was never written stands for the empty tree.
CaughtUp ==
    /\ pending = <<>>
    /\ IF IsSome(store) THEN Get(store) = SerializeTreeItems(heap, rootItems)
       ELSE rootItems = <<>>

\* C38: when the writes complete in the order in which they were started,
\* either mutations go on starting writes for ever, or from some point on
\* nothing is in flight and the store holds the serialization of the tree.
C38_PersistenceCatchesUp == []<><<WriteStarted>>_vars \/ <>[]CaughtUp

\* C38 witness: two writes are in flight, the older one with a tree that is
\* not the tree any more, while the store holds a third tree.
C38_Witness ==
    /\ Len(pending) = 2
    /\ pending[1] # pending[2]
    /\ pending[2] = SerializeTreeItems(heap, rootItems)
    /\ IsSome(store)
    /\ Get(store) # pending[1]
    /\ Get(store) # pending[2]

\* The entries of the inputs list of a configuration file.
InputsOf(config) == IF IsSome(config.inputs) THEN Get(config.inputs) ELSE <<>>

\* C39: addToLaunchConfig leaves the entries of inputs in place and puts
\* behind them descriptors of the generated list only, none with the id of
\* an entry the file had, and every generated descriptor whose id the file
\* did not have; when every generated id is in the file, the file is left as
\* it is; the tree is not changed, and after a run that edited the file every
\* generated id is in the file, so the next run on the same tree edits
\* nothing.
C39_AddsOnlyNewIds ==
    [][out'.op = "addToLaunchConfig" =>
        \A selected \in BOOLEAN :
          AddToLaunchConfig(selected) =>
            LET commands == GenerateCommandsJson(heap, rootItems, <<>>)
                old == InputsOf(document)
                new == InputsOf(document')
                oldIds == {old[k].id : k \in 1..Len(old)}
                added == SubSeq(new, Len(old) + 1, Len(new))
            IN /\ heap' = heap /\ rootItems' = rootItems
               /\ Len(new) >= Len(old)
               /\ SubSeq(new, 1, Len(old)) = old
               /\ \A k \in 1..Len(added) :
                     /\ added[k].id \notin oldIds
                     /\ \E m \in 1..Len(commands) : commands[m] = added[k]
               /\ (selected /\ document.type = "object") =>
                     \A m \in 1..Len(commands) :
                         commands[m].id \notin oldIds =>
                             \E k \in 1..Len(added) : added[k] = commands[m]
               /\ (\A m \in 1..Len(commands) : commands[m].id \in oldIds) =>
                     document' = document
               /\ document' # document =>
                     \A m \in 1..Len(commands) :
                         commands[m].id \in {new[k].id : k \in 1..Len(new)}]_vars

\* C39 witness: the tree generates the ids a and b, the file had an entry
\* with the id a, and the command has put the descriptor of b behind it.
C39_Witness ==
    /\ out.op = "addToLaunchConfig"
    /\ GenerateCommandsJson(heap, rootItems, <<>>)
          = <<Descriptor(<<"a">>), Descriptor(<<"b">>)>>
    /\ document = ConfigObject(Some(<<InputEntry(<<"a">>), Descriptor(<<"b">>)>>))

====
